---- MODULE Spec2Model ----
(***************************************************************************)
(* FuzbAISim: the heuristic demo agent (PlayerAgent), the learned-policy   *)
(* agent (PlayerAgentRL) and the gym environment adapter (FoosballEnv).    *)
(*                                                                         *)
(* The three classes share no state, so a behaviour exercises one object   *)
(* at a time: `agent` names the object that was constructed.               *)
(*                                                                         *)
(* Numbers.  The code computes on Python floats.  The model computes the   *)
(* same expressions exactly, on integers that count fixed fractions of 1:  *)
(*   - heuristic agent: time in TimeUnit-ths of a second, command fields   *)
(*     in HScale-ths;                                                      *)
(*   - PlayerAgentRL: action components in AScale-ths, smoothed values and *)
(*     command fields in Scale-ths; Scale carries one factor 10 per call   *)
(*     so that every 0.9/0.1 blend is exact;                               *)
(*   - FoosballEnv: everything in EScale-ths.                              *)
(* IEEE rounding of the doubles is not modelled, and action components are *)
(* finite numbers (or non-numeric objects), never NaN or infinity.         *)
(***************************************************************************)
EXTENDS Integers, Sequences, FiniteSets, TLC

VARIABLES
    agent,          \* which object exists: "heuristic", "rl" or "env"
    op,             \* the last operation performed on it
    \* ---- PlayerAgent (heuristic) ----
    now,            \* the injected clock: value of the last time.time() read
    demo_state,     \* self.demo_state
    demo_t,         \* self.demo_t
    tick_t,         \* value of the first time.time() read of the last tick
    idle_since,     \* clock value at which the current Idle visit began
    kicks,          \* number of Kick -> Idle transitions so far
    hcommands,      \* what the last process_data returned
    \* ---- PlayerAgentRL ----
    prev_positions, \* self.prev_positions: rod -> smoothed translation
    prev_angles,    \* self.prev_angles: rod -> smoothed rotation
    calls,          \* number of process_data calls so far
    rl_action,      \* the rl_action argument of the last call
    rl_raised,      \* whether the last call raised
    rcommands,      \* what the last call returned
    \* ---- FoosballEnv ----
    prev_rod_positions, \* self.prev_rod_positions
    prev_rod_angles,    \* self.prev_rod_angles
    score,          \* self.sim.score: <<red, blue>>
    episode_reward, \* self.episode_reward
    motorCommandsExternal1,          \* self.sim.motorCommandsExternal1 (and 2)
    steps,          \* number of step calls so far
    env_action,     \* the action argument of the last step
    env_cam,        \* the telemetry the last step / reset read
    env_raised,     \* whether the last step / reset raised
    env_obs,        \* the observation the last step / reset obtained
    env_reward      \* the reward the last step computed

evars == <<prev_rod_positions, prev_rod_angles, score, episode_reward, motorCommandsExternal1,
           steps, env_action, env_cam, env_raised, env_obs, env_reward>>
rvars == <<prev_positions, prev_angles, calls, rl_action, rl_raised, rcommands>>
hvars == <<now, demo_state, demo_t, tick_t, idle_since, kicks, hcommands>>

----------------------------------------------------------------------------
(* PlayerAgent: the heuristic kick state machine                           *)

TimeUnit == 20          \* clock ticks per second (one tick = 50 ms)
HScale == 1000          \* command fields of the heuristic agent, per 1.0
MaxTime == 215          \* the clock is followed up to this value
MaxStart == 110         \* largest clock value at construction

IdleDur == 5 * TimeUnit          \* 5 s     (line 93)
WindUpDur == TimeUnit \div 20    \* 0.05 s  (line 119)
KickDur == TimeUnit \div 5       \* 0.2 s   (line 134)

Advances == {0, 1, 2, 3, 4, 5, 95, 99, 100}   \* clock advance between ticks
Jitter == {0, 1}        \* advance between two time.time() reads of one tick

playerMapping == <<1, 2, -1, 3, -1, 4, -1, -1>>

\* math.sin, argument in hundredths of a radian, result in HScale-ths:
\* Bhaskara's rational approximation (absolute error below 0.002), odd and
\* 2*pi periodic like the sine.
SinPi == 314
SinHalf(y) == (16 * y * (SinPi - y) * HScale)
                 \div (5 * SinPi * SinPi - 4 * y * (SinPi - y))
Sin(x) ==
    LET y == x % (2 * SinPi)
    IN  IF y <= SinPi THEN SinHalf(y) ELSE 0 - SinHalf(y - SinPi)

\* seconds elapsed, as the sine's argument (hundredths of a radian)
Radians(dt) == (dt * 100) \div TimeUnit

Cmd(drive, rotT, rotV, transT, transV) ==
    [driveID |-> drive, rotationTargetPosition |-> rotT,
     rotationVelocity |-> rotV, translationTargetPosition |-> transT,
     translationVelocity |-> transV]

SineTarget(dt) == (HScale \div 2) + (Sin(Radians(dt)) * (HScale \div 2)) \div HScale

\* the three guards of the state machine, on the clock value t just read
IdleRunning(t) == t - demo_t < IdleDur
WindUpOver_geq(t) == t - demo_t >= WindUpDur
WindUpOver(t) == t - demo_t > WindUpDur
KickOver(t) == t - demo_t > KickDur

\* The goalie branch (rod 0) of one process_data call.  t1 is the clock value
\* the guard reads, t2 the value of the second read of the same call.
GoalieStep(t1, t2) ==
    IF demo_state = 0 THEN
        IF IdleRunning(t1)
        THEN [state |-> 0, t |-> demo_t, reads |-> 2,
              cmds |-> <<Cmd(playerMapping[1], 0, 200, SineTarget(t2 - demo_t), HScale)>>]
        ELSE [state |-> 1, t |-> t2, reads |-> 2,
              cmds |-> <<Cmd(playerMapping[1], 500, HScale, 500, HScale)>>]
    ELSE IF demo_state = 1 THEN
        IF WindUpOver(t1)
        THEN [state |-> 2, t |-> t2, reads |-> 2,
              cmds |-> <<Cmd(playerMapping[1], -500, HScale, 500, HScale)>>]
        ELSE [state |-> 1, t |-> demo_t, reads |-> 1, cmds |-> <<>>]
    ELSE
        IF KickOver(t1)
        THEN [state |-> 0, t |-> t2, reads |-> 2,
              cmds |-> <<Cmd(playerMapping[1], 0, 200, 500, HScale)>>]
        ELSE [state |-> 2, t |-> demo_t, reads |-> 1, cmds |-> <<>>]

\* what the loop body contributes for rod index i (0-based, as in the code)
RodCommands(i, g) ==
    IF playerMapping[i + 1] < 0 THEN <<>>
    ELSE IF i = 0 THEN g.cmds
    ELSE <<>>

RECURSIVE LoopCommands(_, _)
LoopCommands(i, g) ==
    IF i = 8 THEN <<>> ELSE RodCommands(i, g) \o LoopCommands(i + 1, g)

InitHeur ==
    /\ now \in IF agent = "heuristic" THEN {0, MaxStart} ELSE {0}
    /\ demo_state = 0
    /\ demo_t = 0
    /\ tick_t = now
    /\ idle_since = now
    /\ kicks = 0
    /\ hcommands = <<>>

\* PlayerAgent.process_data, one call
Tick ==
    /\ agent = "heuristic"
    /\ \E d1 \in Advances, d2 \in Jitter :
         LET t1 == now + d1
             t2 == t1 + d2
             g  == GoalieStep(t1, t2)
         IN  /\ t2 <= MaxTime
             /\ (g.reads = 1 => d2 = 0)
             /\ tick_t' = t1
             /\ now' = t2
             /\ demo_state' = g.state
             /\ demo_t' = g.t
             /\ idle_since' = IF demo_state /= 0 /\ g.state = 0 THEN g.t ELSE idle_since
             /\ kicks' = IF demo_state = 2 /\ g.state = 0 THEN kicks + 1 ELSE kicks
             /\ hcommands' = LoopCommands(0, g)
    /\ op' = "tick"
    /\ UNCHANGED <<agent, rvars, evars>>

----------------------------------------------------------------------------
(* PlayerAgentRL: the learned-policy decision function                     *)

MaxCalls == 2                   \* process_data calls followed
AScale == 2                     \* action components, per 1.0
Scale == 8 * 10 ^ MaxCalls      \* smoothed values and command fields, per 1.0
Half == Scale \div 2

Rods == <<0, 1, 2, 3>>          \* self.rods, the same list for both teams
NumRods == Len(Rods)

\* An element no arithmetic is defined on (None or a string in an object
\* array); the code is a reserved value outside every number used.
BAD == 0 - 999999
IsNum(x) == x /= BAD

\* np.clip on finite numbers
Clip_none(x, lo, hi) == x
Clip(x, lo, hi) == IF x < lo THEN lo ELSE IF x > hi THEN hi ELSE x

\* dict.get(rod, default)
PrevPos(rod) == IF rod \in DOMAIN prev_positions THEN prev_positions[rod] ELSE Half
PrevAng(rod) == IF rod \in DOMAIN prev_angles THEN prev_angles[rod] ELSE 0

\* 0.9 * prev + 0.1 * (0.5 + trans_dir * 0.5)
SmoothTrans_noOffset(prev, td) == (9 * prev + (td * Scale) \div (2 * AScale)) \div 10
SmoothTrans(prev, td) == (9 * prev + Half + (td * Scale) \div (2 * AScale)) \div 10
\* 0.9 * prev + 0.1 * (rot_dir * 0.75)
SmoothRot(prev, rd) == (9 * prev + (3 * rd * Scale) \div (4 * AScale)) \div 10
\* np.clip(velocity * 1.5, 0.1, 2.0)
Velocity(v) == Clip((3 * v * Scale) \div (2 * AScale), Scale \div 10, 2 * Scale)

\* An rl_action value: None, a Python list, or a 2-d numpy array with its
\* shape and rows.
Matrix(kind, nrows, ncols, x) ==
    [kind |-> kind, nrows |-> nrows, ncols |-> ncols,
     rows |-> [i \in 1..nrows |-> [j \in 1..ncols |-> x]]]
Zeros == Matrix("ndarray", NumRods, 3, 0)          \* np.zeros((len(self.rods), 3))
OneRow(r, t) == [Zeros EXCEPT !.rows[r] = t]
AllRows(t) == [Zeros EXCEPT !.rows = [i \in 1..NumRods |-> t]]

\* line 187: None, or not a numpy array
IsInvalidType(a) == a.kind = "None" \/ a.kind /= "ndarray"
\* line 191: rl_action.shape != (len(self.rods), 3)
ShapeMismatch_rowsOnly(a) == a.nrows /= NumRods
ShapeMismatch(a) == <<a.nrows, a.ncols>> /= <<NumRods, 3>>

\* lines 187-193.  Reading .shape of something that is no array raises.
Validate(a) ==
    LET a1 == IF IsInvalidType(a) THEN Zeros ELSE a
    IN  IF a1.kind /= "ndarray" THEN [raised |-> TRUE, action |-> a1]
        ELSE IF ShapeMismatch(a1) THEN [raised |-> FALSE, action |-> Zeros]
        ELSE [raised |-> FALSE, action |-> a1]

\* The body of the try block for one rod (lines 200-215), from the dicts pp
\* and pa.  Arithmetic on a non-numeric element raises: trans_dir at line 202
\* and rot_dir at line 203 before anything is stored, velocity at line 211
\* after the smoothed values were stored.  Unpacking a row that has not three
\* elements raises at line 200.
RodBody(rod, row, pp, pa) ==
    LET ppv == IF rod \in DOMAIN pp THEN pp[rod] ELSE Half
        pav == IF rod \in DOMAIN pa THEN pa[rod] ELSE 0
    IN  IF Len(row) /= 3 \/ ~IsNum(row[1]) \/ ~IsNum(row[2])
        THEN [raised |-> TRUE, pp |-> pp, pa |-> pa, cmds |-> <<>>]
        ELSE LET st == SmoothTrans(ppv, row[1])
                 sr == SmoothRot(pav, row[2])
                 pp2 == [r \in DOMAIN pp \cup {rod} |-> IF r = rod THEN st ELSE pp[r]]
                 pa2 == [r \in DOMAIN pa \cup {rod} |-> IF r = rod THEN sr ELSE pa[r]]
             IN  IF ~IsNum(row[3])
                 THEN [raised |-> TRUE, pp |-> pp2, pa |-> pa2, cmds |-> <<>>]
                 ELSE [raised |-> FALSE, pp |-> pp2, pa |-> pa2,
                       cmds |-> <<Cmd(rod + 1, Clip(sr, 0 - Scale, Scale), Velocity(row[3]),
                                      Clip(st, 0, Scale), Velocity(row[3]))>>]

\* where the loop goes after rod index i, whether or not its body raised:
\* the except clause is inside the loop
NextIndex_abort(i, raised) == IF raised THEN NumRods + 1 ELSE i + 1
NextIndex(i, raised) == i + 1

\* rl_action[i], i counted from 1; <<>> stands for a row that does not exist
RowOf(a, i) == IF i <= a.nrows THEN a.rows[i] ELSE <<>>

\* for i, rod in enumerate(self.rods), lines 196-218
RECURSIVE RodLoop(_, _, _)
RodLoop(i, a, acc) ==
    IF i > NumRods THEN acc
    ELSE CHOOSE r \in
             {RodLoop(NextIndex(i, b.raised), a,
                      [pp |-> b.pp, pa |-> b.pa, cmds |-> acc.cmds \o b.cmds]) :
                 b \in {RodBody(Rods[i], RowOf(a, i), acc.pp, acc.pa)}} : TRUE

\* the actions a caller may hand in
TransVals == {-40, 0, 2}
RotVals == {-2, 0, 40}
VelVals == {0, 1, 3}
Triples == {<<t, r, v>> : t \in TransVals, r \in RotVals, v \in VelVals}
BadTriples == {<<BAD, 2, 2>>, <<2, BAD, 2>>, <<2, 2, BAD>>}
WellShaped ==
    {AllRows(t) : t \in Triples}
        \cup {OneRow(r, t) : r \in 1..NumRods, t \in BadTriples \cup {<<-40, 40, 3>>}}
IllShaped ==
    {Matrix("None", 0, 0, 0), Matrix("list", NumRods, 3, 2),
     Matrix("ndarray", NumRods - 1, 3, 2), Matrix("ndarray", NumRods + 1, 3, 2),
     Matrix("ndarray", NumRods, 2, 2), Matrix("ndarray", NumRods, 4, 2),
     Matrix("ndarray", 0, 3, 2)}

InitRL ==
    /\ prev_positions = <<>>
    /\ prev_angles = <<>>
    /\ calls = 0
    /\ rl_action = Matrix("None", 0, 0, 0)
    /\ rl_raised = FALSE
    /\ rcommands = <<>>

\* PlayerAgentRL.process_data(camera, rl_action), camera well formed
ProcessData(a) ==
    /\ agent = "rl"
    /\ calls < MaxCalls
    /\ \E v \in {Validate(a)} :
       \E r \in {RodLoop(1, v.action,
                          [pp |-> prev_positions, pa |-> prev_angles, cmds |-> <<>>])} :
           IF v.raised
           THEN /\ rl_raised' = TRUE
                /\ rcommands' = <<>>
                /\ UNCHANGED <<prev_positions, prev_angles>>
           ELSE /\ rl_raised' = FALSE
                /\ rcommands' = r.cmds
                /\ prev_positions' = r.pp
                /\ prev_angles' = r.pa
    /\ rl_action' = a
    /\ calls' = calls + 1
    /\ op' = "rl"
    /\ UNCHANGED <<agent, hvars, evars>>

ProcessWellShaped == \E a \in WellShaped : ProcessData(a)
ProcessIllShaped == \E a \in IllShaped : ProcessData(a)

----------------------------------------------------------------------------
(* FoosballEnv: the gym environment adapter                                *)

MaxSteps == 2                   \* step calls followed
MaxGoals == 1                   \* goals per team the simulator may report
EScale == 200 * 4 ^ (MaxSteps + 1)  \* positions, angles, rewards: per 1.0

ObsLen == 20                    \* observation_space.shape
BaseReward == EScale \div 10    \* reward = 0.1
FieldX == 1210                  \* observation_space high, ball x (mm)
FieldY == 700                   \* observation_space high, ball y (mm)
MaxAngle == 32                  \* observation_space high, rod angle (degrees)

Abs(x) == IF x < 0 THEN 0 - x ELSE x
RECURSIVE Sum(_)
Sum(q) == IF q = <<>> THEN 0 ELSE Head(q) + Sum(Tail(q))
Take(q, n) == SubSeq(q, 1, IF Len(q) < n THEN Len(q) ELSE n)   \* q[:n]
Fill(n, x) == [i \in 1..n |-> x]

\* What self.sim.getCameraDict(1) yields: kind "ok" is a record with a
\* non-empty camData list, "empty" one without camData (or an empty list),
\* "fail" a read that raises.  v = <<ball_vx, ball_vy>>, pos and ang the
\* rod_position_calib and rod_angle lists.
Camera(kind, bx, by, v, n, p, a) ==
    [kind |-> kind, ball_x |-> bx, ball_y |-> by, ball_vx |-> v[1], ball_vy |-> v[2],
     rod_position_calib |-> Fill(n, p), rod_angle |-> Fill(n, a)]
NoCamera(kind) == Camera(kind, 0, 0, <<0, 0>>, 0, 0, 0)

\* FoosballEnv._get_obs on a telemetry read (lines 29-55)
GetObs_unchecked(cam) ==
    IF cam.kind /= "ok" THEN Fill(ObsLen, 0)
    ELSE <<cam.ball_x, cam.ball_y, cam.ball_vx, cam.ball_vy>>
             \o Take(cam.rod_position_calib, 8) \o Take(cam.rod_angle, 8)
GetObs(cam) ==
    IF cam.kind /= "ok" THEN Fill(ObsLen, 0)
    ELSE LET obs == <<cam.ball_x, cam.ball_y, cam.ball_vx, cam.ball_vy>>
                        \o Take(cam.rod_position_calib, 8) \o Take(cam.rod_angle, 8)
         IN  IF Len(obs) /= ObsLen THEN Fill(ObsLen, 0) ELSE obs

\* numpy broadcasting of a - b for 1-d operands: the shapes must agree unless
\* one of them has length 1
Broadcasts(a, b) == Len(a) = Len(b) \/ Len(a) = 1 \/ Len(b) = 1
AbsDiffSum(a, b) ==
    LET n == IF Len(a) > Len(b) THEN Len(a) ELSE Len(b)
        at(q, i) == IF Len(q) = 1 THEN q[1] ELSE q[i]
    IN  Sum([i \in 1..n |-> Abs(at(a, i) - at(b, i))])

\* the goal terms of the reward, sections 4 and 5 (lines 95-109): what they
\* add and the score they leave
GoalTerms(sc) ==
    LET p == IF sc[2] > 0 THEN [add |-> 0 - 5 * EScale, score |-> <<0, 0>>]
             ELSE IF sc[1] > 0 THEN [add |-> 0 - 5 * EScale, score |-> <<0, 0>>]
             ELSE [add |-> 0, score |-> sc]
        b == IF p.score[1] > 0 THEN [add |-> 10 * EScale, score |-> <<0, 0>>]
             ELSE IF p.score[2] > 0 THEN [add |-> 10 * EScale, score |-> <<0, 0>>]
             ELSE [add |-> 0, score |-> p.score]
    IN  [add |-> p.add + b.add, score |-> b.score]

\* the shaking penalties (lines 80-83)
ShakePenalty_always(mp, rp) == mp \div 2 + rp \div 10
ShakePenalty(mp, rp) ==
    (IF mp > EScale \div 5 THEN mp \div 2 ELSE 0)
        + (IF rp > 5 * EScale THEN rp \div 10 ELSE 0)

\* the reward before the goal terms (lines 66-93): baseline, hit bonus,
\* shaking penalties, own-goal penalty; cp, ca are the telemetry's first four
\* rod positions and angles, pp, pa the stored ones
Shaping(cam, cp, ca, pp, pa) ==
    LET hit == IF Abs(cam.ball_vx) > EScale \div 5 \/ Abs(cam.ball_vy) > EScale \div 5
               THEN EScale \div 10 ELSE 0
        own == IF cam.ball_vx < 0 - EScale \div 5 THEN EScale \div 2
               ELSE IF cam.ball_vx > EScale \div 5 THEN EScale \div 2
               ELSE 0
    IN  BaseReward + hit - ShakePenalty(AbsDiffSum(cp, pp), AbsDiffSum(ca, pa)) - own

\* FoosballEnv._compute_reward (lines 59-111) on the telemetry it reads, from
\* the stored rod values pp, pa and the score sc
ComputeReward(cam, pp, pa, sc) ==
    IF cam.kind /= "ok" THEN [raised |-> TRUE]
    ELSE LET cp == Take(cam.rod_position_calib, 4)
             ca == Take(cam.rod_angle, 4)
             g == GoalTerms(sc)
         IN  IF ~Broadcasts(cp, pp) \/ ~Broadcasts(ca, pa) THEN [raised |-> TRUE]
             ELSE [raised |-> FALSE,
                   reward |-> Shaping(cam, cp, ca, pp, pa) + g.add,
                   pp |-> cp, pa |-> ca, score |-> g.score]

\* the stored value the step starts from for rod index i (line 122 / 123)
StepBase(prev, i) == prev[i]

\* one iteration of the loop of step (lines 119-133)
StepBody(i, a, pp, pa) ==
    IF a.kind = "None" \/ i > a.nrows \/ a.ncols /= 3
         \/ i > Len(pp) \/ i > Len(pa)
         \/ \E j \in 1..3 : ~IsNum(a.rows[i][j])
    THEN [raised |-> TRUE]
    ELSE LET row == a.rows[i]
             trans_smooth == Clip(StepBase(pp, i) + (row[1] * EScale) \div (10 * AScale), 0, EScale)
             rot_smooth == Clip(StepBase(pa, i) + (row[2] * EScale) \div (10 * AScale),
                                0 - EScale, EScale)
             vel == Clip((3 * row[3] * EScale) \div (2 * AScale), EScale \div 10, 2 * EScale)
         IN  [raised |-> FALSE,
              cmd |-> Cmd(Rods[i] + 1, (3 * rot_smooth) \div 4, vel, trans_smooth, vel)]

\* for i, rod in enumerate(self.sim.p1.rods)
StepCommands(a, pp, pa) ==
    LET b == [i \in 1..NumRods |-> StepBody(i, a, pp, pa)]
    IN  IF \E i \in 1..NumRods : b[i].raised THEN [raised |-> TRUE]
        ELSE [raised |-> FALSE, cmds |-> [i \in 1..NumRods |-> b[i].cmd]]

\* telemetry the simulator may report: a still ball at the field centre with
\* quiet rods, and departures from it in one respect at a time
Quiet == <<0, 0>>
QuietCam == Camera("ok", FieldX \div 2, FieldY \div 2, Quiet, 8, EScale \div 20, 0)
Cams ==
    {Camera("ok", FieldX \div 2, FieldY \div 2, v, 8, EScale \div 20, 0) :
        v \in {Quiet, <<EScale \div 2, 0>>, <<0 - EScale \div 2, 0>>,
               <<0, 0 - EScale \div 2>>}}
      \cup {Camera("ok", FieldX \div 2, FieldY \div 2, Quiet, 8, EScale, 0),
            Camera("ok", FieldX \div 2, FieldY \div 2, Quiet, 8, EScale \div 20,
                   0 - MaxAngle * EScale)}
      \cup {Camera("ok", FieldX \div 2, FieldY \div 2, Quiet, n, EScale \div 20, 0) : n \in {1, 3}}
      \cup {NoCamera("empty")}

\* telemetry around a reset, and around an ill-shaped action
\* ("missing": no camData key; "malformed": camData[0] lacks a ball field)
ResetCams ==
    {Camera("ok", FieldX \div 2, FieldY \div 2, Quiet, n, EScale \div 20, 0) : n \in {8, 3, 10}}
      \cup {NoCamera(k) : k \in {"empty", "missing", "fail", "malformed"}}
IllCams == {QuietCam, NoCamera("fail")}

\* actions the trainer may pass to step
EnvTriples == {<<0, 0, 0>>, <<2, -2, 1>>, <<-40, 40, 3>>}
EnvWellShaped == {AllRows(t) : t \in EnvTriples}
EnvIllShaped ==
    {Matrix("None", 0, 0, 0), Matrix("ndarray", NumRods - 1, 3, 2),
     Matrix("ndarray", NumRods + 1, 3, 2), Matrix("ndarray", NumRods, 2, 2),
     OneRow(2, <<2, BAD, 2>>)}

InitEnv ==
    /\ prev_rod_positions = Fill(4, 0)
    /\ prev_rod_angles = Fill(4, 0)
    /\ score = <<0, 0>>
    /\ episode_reward = 0
    /\ motorCommandsExternal1 = <<>>
    /\ steps = 0
    /\ env_action = Matrix("None", 0, 0, 0)
    /\ env_cam = NoCamera("empty")
    /\ env_raised = FALSE
    /\ env_obs = <<>>
    /\ env_reward = 0

\* FoosballEnv.step(action).  cams is the telemetry the simulator may report
\* in this step: the reads of _get_obs and _compute_reward follow each other
\* directly and see the same snapshot cam.
Step(a, cams) ==
    /\ agent = "env"
    /\ steps < MaxSteps
    /\ \E c \in {StepCommands(a, prev_rod_positions, prev_rod_angles)} :
           IF c.raised
           THEN /\ env_raised' = TRUE
                /\ env_cam' \in cams
                /\ UNCHANGED <<prev_rod_positions, prev_rod_angles, score,
                               episode_reward, motorCommandsExternal1, env_obs, env_reward>>
           ELSE \E pp \in {[i \in 1..NumRods |-> c.cmds[i].translationTargetPosition]},
                   pa \in {[i \in 1..NumRods |-> c.cmds[i].rotationTargetPosition]} :
                \E cam \in cams :
                \E r \in {ComputeReward(cam, pp, pa, score)} :
                    /\ motorCommandsExternal1' = c.cmds
                    /\ env_cam' = cam
                    /\ env_obs' = GetObs(cam)
                    /\ IF r.raised
                       THEN /\ env_raised' = TRUE
                            /\ prev_rod_positions' = pp
                            /\ prev_rod_angles' = pa
                            /\ UNCHANGED <<score, episode_reward, env_reward>>
                       ELSE /\ env_raised' = FALSE
                            /\ prev_rod_positions' = r.pp
                            /\ prev_rod_angles' = r.pa
                            /\ score' = r.score
                            /\ env_reward' = r.reward
                            /\ episode_reward' = episode_reward + r.reward
    /\ env_action' = a
    /\ steps' = steps + 1
    /\ op' = "step"
    /\ UNCHANGED <<agent, hvars, rvars>>

StepWellShaped == \E a \in EnvWellShaped : Step(a, Cams)
StepIllShaped == \E a \in EnvIllShaped : Step(a, IllCams)

\* FoosballEnv.reset()
Reset ==
    /\ agent = "env"
    /\ steps < MaxSteps
    /\ \E cam \in ResetCams : env_obs' = GetObs(cam) /\ env_cam' = cam
    /\ episode_reward' = 0
    /\ env_raised' = FALSE
    /\ op' = "reset"
    /\ UNCHANGED <<agent, hvars, rvars, prev_rod_positions, prev_rod_angles, score,
                   motorCommandsExternal1, steps, env_action, env_reward>>

\* the simulator counts a goal for team t (1 = red, 2 = blue)
SimGoal ==
    /\ agent = "env"
    /\ steps < MaxSteps
    /\ \E t \in 1..2 :
         /\ score[t] < MaxGoals
         /\ score' = [score EXCEPT ![t] = @ + 1]
    /\ op' = "goal"
    /\ UNCHANGED <<agent, hvars, rvars, prev_rod_positions, prev_rod_angles,
                   episode_reward, motorCommandsExternal1, steps, env_action, env_cam, env_raised,
                   env_obs, env_reward>>

----------------------------------------------------------------------------
vars == <<agent, op, hvars, rvars, evars>>

Init ==
    /\ agent \in {"heuristic", "rl", "env"}
    /\ op = "init"
    /\ InitHeur
    /\ InitRL
    /\ InitEnv

NextHeur == Tick
NextRL == ProcessWellShaped \/ ProcessIllShaped
NextEnv == StepWellShaped \/ StepIllShaped \/ Reset \/ SimGoal

Next == NextHeur \/ NextRL \/ NextEnv

----------------------------------------------------------------------------
(* Claims about PlayerAgent                                                *)

\* C1 as stated: Idle leaves for WindUp at >= 5 s, WindUp for Kick at
\* >= 50 ms, Kick for Idle at >= 200 ms since the recorded entry time, and
\* the state only ever changes along Idle -> WindUp -> Kick -> Idle.
C1_AsClaimed ==
    [][op' = "tick" =>
        /\ (demo_state = 0 /\ tick_t' - demo_t >= IdleDur => demo_state' = 1)
        /\ (demo_state = 1 /\ tick_t' - demo_t >= WindUpDur => demo_state' = 2)
        /\ (demo_state = 2 /\ tick_t' - demo_t >= KickDur => demo_state' = 0)
        /\ (demo_state' /= demo_state => demo_state' = (demo_state + 1) % 3)]_vars

\* C1 amended: Idle leaves for WindUp at >= 5 s; WindUp leaves for Kick only
\* when MORE than 50 ms have elapsed and Kick for Idle only when MORE than
\* 200 ms have elapsed (at exactly 50 ms / 200 ms the state is kept); every
\* transition records the entry time and follows the cyclic order.
C1_KickCycle ==
    [][op' = "tick" =>
        /\ (demo_state = 0 =>
               demo_state' = IF tick_t' - demo_t >= IdleDur THEN 1 ELSE 0)
        /\ (demo_state = 1 =>
               demo_state' = IF tick_t' - demo_t > WindUpDur THEN 2 ELSE 1)
        /\ (demo_state = 2 =>
               demo_state' = IF tick_t' - demo_t > KickDur THEN 0 ELSE 2)
        /\ (demo_state' /= demo_state =>
               /\ demo_state' = (demo_state + 1) % 3
               /\ demo_t' >= tick_t')
        /\ (demo_state' = demo_state => demo_t' = demo_t)]_vars

\* a full cycle was run: back in WindUp after a Kick -> Idle transition
C1_Witness == op = "tick" /\ kicks >= 1 /\ demo_state = 1

\* C10 as stated: on every tick less than 5 s after the current Idle visit
\* began (construction, for the first one) the agent stays in Idle, keeps
\* demo_t and returns exactly one command, for drive 1, with rotation target
\* 0.0 and a translation target in [0, 1]; no call returns a command for
\* another drive.
C10_AsClaimed ==
    [][op' = "tick" =>
        /\ (demo_state = 0 /\ tick_t' - idle_since < IdleDur =>
               /\ demo_state' = 0
               /\ demo_t' = demo_t
               /\ Len(hcommands') = 1
               /\ hcommands'[1].rotationTargetPosition = 0
               /\ hcommands'[1].translationTargetPosition \in 0..HScale)
        /\ \A k \in 1..Len(hcommands') : hcommands'[k].driveID = 1]_vars

----------------------------------------------------------------------------
(* Claims about PlayerAgentRL                                              *)

IsIllShaped(a) == a.kind /= "ndarray" \/ a.nrows /= NumRods \/ a.ncols /= 3

\* C2: a call whose rl_action is None, no numpy array, or an array of another
\* shape than (number of rods, 3) does not raise and returns one command per
\* rod, in rod order: the command of an all-zero action, that is the rod's
\* smoothed values moved one blend towards 0.5 / 0 and clamped, and both
\* velocities at the floor 0.1.
C2_ZeroSubstituted ==
    [][op' = "rl" /\ IsIllShaped(rl_action') =>
        /\ ~rl_raised'
        /\ Len(rcommands') = NumRods
        /\ \A k \in 1..NumRods :
             rcommands'[k] =
                 Cmd(Rods[k] + 1,
                     Clip((9 * PrevAng(Rods[k])) \div 10, 0 - Scale, Scale),
                     Scale \div 10,
                     Clip((9 * PrevPos(Rods[k]) + Half) \div 10, 0, Scale),
                     Scale \div 10)]_vars

\* an ill-shaped array arrived after the smoothed state had left neutral
C2_Witness ==
    /\ op = "rl" /\ calls >= 2
    /\ rl_action.kind = "ndarray" /\ IsIllShaped(rl_action)
    /\ Len(rcommands) = NumRods
    /\ rcommands[1].translationTargetPosition /= Half

\* C4: a call whose action row for a rod has translation direction 0 and
\* rotation direction 0 multiplies the rod's distance to the neutral target
\* (0.5 translation, 0 rotation) by exactly 0.9, on the same side of it; a
\* rod at the target stays there.
C4_ZeroInputDecay ==
    [][op' = "rl" /\ ~IsIllShaped(rl_action') =>
        \A k \in 1..NumRods :
            rl_action'.rows[k][1] = 0 /\ rl_action'.rows[k][2] = 0 =>
                /\ Rods[k] \in DOMAIN prev_positions'
                /\ 10 * (prev_positions'[Rods[k]] - Half) = 9 * (PrevPos(Rods[k]) - Half)
                /\ 10 * prev_angles'[Rods[k]] = 9 * PrevAng(Rods[k])]_vars

\* a zero-direction row was applied to a rod that was away from neutral
C4_Witness ==
    /\ op = "rl" /\ ~IsIllShaped(rl_action)
    /\ \E k \in 1..NumRods :
         /\ rl_action.rows[k][1] = 0 /\ rl_action.rows[k][2] = 0
         /\ PrevPos(Rods[k]) /= Half
         /\ PrevAng(Rods[k]) /= 0

\* rod indices (1-based) whose row holds a non-numeric element
RaisingRows(a) == {k \in 1..NumRods : \E j \in 1..3 : ~IsNum(a.rows[k][j])}

\* C7: when command construction raises for some rod, the call still does
\* not raise and returns exactly the commands of the other rods, in rod order.
C7_PerRodIsolation ==
    [][op' = "rl" /\ ~IsIllShaped(rl_action') =>
        LET bad == RaisingRows(rl_action')
            good == SelectSeq(Rods, LAMBDA rod : (rod + 1) \notin bad)
        IN  /\ ~rl_raised'
            /\ Len(rcommands') = Len(good)
            /\ \A k \in 1..Len(good) : rcommands'[k].driveID = good[k] + 1]_vars

\* construction raised for the first rod only, and three commands came back
C7_Witness ==
    /\ op = "rl" /\ ~IsIllShaped(rl_action)
    /\ RaisingRows(rl_action) = {1}
    /\ Len(rcommands) = NumRods - 1

----------------------------------------------------------------------------
(* Claims about the emitted commands and about FoosballEnv                 *)

InRange(c, unit) ==
    /\ c.translationTargetPosition \in 0..unit
    /\ c.rotationTargetPosition \in (0 - unit)..unit
    /\ c.rotationVelocity \in (unit \div 10)..(2 * unit)
    /\ c.translationVelocity \in (unit \div 10)..(2 * unit)

\* C3: every command PlayerAgentRL.process_data returns and every command
\* FoosballEnv.step emits has its translation target in [0, 1], its rotation
\* target in [-1, 1] and both velocities in [0.1, 2.0], whatever the
\* magnitude of the action components.
C3_CommandRanges ==
    /\ \A k \in 1..Len(rcommands) : InRange(rcommands[k], Scale)
    /\ \A k \in 1..Len(motorCommandsExternal1) : InRange(motorCommandsExternal1[k], EScale)

\* the agent's smoothed translation left [0, 1] and the command was clamped,
\* with the velocity at its ceiling
C3_Witness ==
    /\ op = "rl"
    /\ \E k \in 1..Len(rcommands) :
         /\ PrevPos(rcommands[k].driveID - 1) < 0
         /\ PrevAng(rcommands[k].driveID - 1) > Scale
         /\ rcommands[k].translationTargetPosition = 0
         /\ rcommands[k].rotationVelocity = 2 * Scale

WrongShape(a) == a.kind = "None" \/ a.nrows /= NumRods \/ a.ncols /= 3
HealthyCam(cam) == cam.kind = "ok" /\ Len(cam.rod_position_calib) = 8

\* the commands step builds from an all-zero action
ZeroStepCommands(pp, pa) ==
    [i \in 1..NumRods |->
        Cmd(Rods[i] + 1, (3 * Clip(pa[i], 0 - EScale, EScale)) \div 4, EScale \div 10,
            Clip(pp[i], 0, EScale), EScale \div 10)]

\* C5 as stated: a step whose action has not the shape (4, 3) does not raise
\* (the telemetry being healthy) and emits the commands of an all-zero action.
C5_AsClaimed ==
    [][op' = "step" /\ WrongShape(env_action') /\ HealthyCam(env_cam')
         /\ Len(prev_rod_positions) = NumRods =>
        /\ ~env_raised'
        /\ motorCommandsExternal1' = ZeroStepCommands(prev_rod_positions, prev_rod_angles)]_vars

StillCentred(cam) ==
    /\ cam.kind = "ok"
    /\ cam.ball_vx = 0 /\ cam.ball_vy = 0
    /\ cam.ball_x = FieldX \div 2 /\ cam.ball_y = FieldY \div 2

Moved(cam, cmds) ==
    AbsDiffSum(Take(cam.rod_position_calib, 4),
               [i \in 1..Len(cmds) |-> cmds[i].translationTargetPosition])
Rotated(cam, cmds) ==
    AbsDiffSum(Take(cam.rod_angle, 4),
               [i \in 1..Len(cmds) |-> cmds[i].rotationTargetPosition])

ShapingOfStep(cam, cmds) ==
    Shaping(cam, Take(cam.rod_position_calib, 4), Take(cam.rod_angle, 4),
            [i \in 1..Len(cmds) |-> cmds[i].translationTargetPosition],
            [i \in 1..Len(cmds) |-> cmds[i].rotationTargetPosition])

\* C8 as stated: a step entered with only a red goal counted gets the +10.0
\* bonus, one entered with only a blue goal counted gets the -5.0 penalty,
\* and either way sim.score is [0, 0] afterwards.
C8_AsClaimed ==
    [][op' = "step" /\ ~env_raised' =>
        /\ (score[1] > 0 /\ score[2] = 0 =>
              env_reward' = ShapingOfStep(env_cam', motorCommandsExternal1') + 10 * EScale)
        /\ (score[2] > 0 /\ score[1] = 0 =>
              env_reward' = ShapingOfStep(env_cam', motorCommandsExternal1') - 5 * EScale)
        /\ (score /= <<0, 0>> => score' = <<0, 0>>)]_vars

InActionSpace(a) ==
    /\ ~WrongShape(a)
    /\ \A i \in 1..NumRods : \A j \in 1..3 :
         IsNum(a.rows[i][j]) /\ Abs(a.rows[i][j]) <= AScale

\* C9 as stated: of two consecutive steps with action components in
\* [-1, 1], the first of which returned, each rod's translation target
\* differs from the previous one by at most 0.1 and its rotation target by at
\* most 0.075.
C9_AsClaimed ==
    [][op = "step" /\ ~env_raised /\ InActionSpace(env_action)
         /\ op' = "step" /\ InActionSpace(env_action')
         /\ Len(prev_rod_positions) = NumRods =>
        \A k \in 1..NumRods :
            /\ Abs(motorCommandsExternal1'[k].translationTargetPosition
                     - motorCommandsExternal1[k].translationTargetPosition) <= EScale \div 10
            /\ Abs(motorCommandsExternal1'[k].rotationTargetPosition
                     - motorCommandsExternal1[k].rotationTargetPosition) <= (3 * EScale) \div 40]_vars

----------------------------------------------------------------------------
(* Claims about FoosballEnv._get_obs and reset                             *)

ZeroObs == Fill(ObsLen, 0)

\* _get_obs has just run: in every reset, and in every step that returned
ObsTaken == op' = "reset" \/ (op' = "step" /\ ~env_raised')

\* the telemetry is a record with eight rod positions and eight rod angles
EightRods(cam) ==
    /\ cam.kind = "ok"
    /\ Len(cam.rod_position_calib) = 8
    /\ Len(cam.rod_angle) = 8

\* the telemetry cannot fill an observation: the read failed, camData is
\* missing or empty, a field is missing, or a rod list has fewer than 8 entries
CannotFill(cam) ==
    \/ cam.kind /= "ok"
    \/ Len(cam.rod_position_calib) < 8
    \/ Len(cam.rod_angle) < 8

\* the observation holds the ball fields and the first eight rod entries
BuiltFrom(obs, cam) ==
    /\ obs[1] = cam.ball_x /\ obs[2] = cam.ball_y
    /\ obs[3] = cam.ball_vx /\ obs[4] = cam.ball_vy
    /\ \A i \in 1..8 : /\ obs[4 + i] = cam.rod_position_calib[i]
                        /\ obs[12 + i] = cam.rod_angle[i]

\* C11 as stated: _get_obs never raises and returns 20 elements, all zero
\* whenever the telemetry is missing, empty, malformed, of the wrong length
\* or its read failed; reset returns 20 elements and zeroes episode_reward.
C11_AsClaimed ==
    [][ObsTaken =>
        /\ Len(env_obs') = ObsLen
        /\ (~EightRods(env_cam') => env_obs' = ZeroObs)
        /\ (op' = "reset" => ~env_raised' /\ episode_reward' = 0)]_vars

\* C11, amended: _get_obs never raises and returns 20 elements; they are all
\* zero when the read failed, camData is missing or empty, a field is missing
\* or a rod list has fewer than 8 entries; otherwise they are the ball fields
\* and the first 8 entries of each rod list, longer lists being truncated;
\* reset returns 20 elements, does not raise and sets episode_reward to 0.
C11_ObsAlwaysShaped ==
    [][ObsTaken =>
        /\ Len(env_obs') = ObsLen
        /\ (CannotFill(env_cam') => env_obs' = ZeroObs)
        /\ (~CannotFill(env_cam') => BuiltFrom(env_obs', env_cam'))
        /\ (op' = "reset" => ~env_raised' /\ episode_reward' = 0)]_vars

\* a reset after a step, whose telemetry read failed
C11_Witness ==
    /\ op = "reset" /\ steps >= 1
    /\ env_cam.kind = "fail"
    /\ env_obs = ZeroObs /\ episode_reward = 0

EnvOnly == Init /\ agent = "env"
RLOnly == Init /\ agent = "rl"
HeurOnly == Init /\ agent = "heuristic"

SpecEnv == EnvOnly /\ [][NextEnv]_vars
SpecRL == RLOnly /\ [][NextRL]_vars
SpecHeur == HeurOnly /\ [][NextHeur]_vars
Spec == Init /\ [][Next]_vars
====
